---- MODULE Spec2Model ----
(***************************************************************************)
(* A model of the two scripts of the repository:                           *)
(*   fix_translations.py    the run that repairs the comfort.modal block   *)
(*                          of es.ts, fr.ts and de.ts (specification Spec) *)
(*   check_translations.py  the run that compares en.ts with nl.ts         *)
(*                          (specification SpecCheck)                      *)
(* Indices are 0-based as in the Python source; a sequence s holds its     *)
(* element i at s[i + 1].                                                  *)
(***************************************************************************)
EXTENDS Integers, Sequences, FiniteSets, TLC

VARIABLES
    fs,         \* fix run: the file of each language, a list of lines
    orig,       \* fix run: the files as they were when the current run began
    io,         \* fix run: what the file system allows per file
    idx,        \* fix run: position of the run loop in files.items()
    status,     \* fix run: "running", "done" or "crashed" (uncaught exception)
    log,        \* fix run: the last message fix_file printed per language
    runs,       \* fix run: how many times the script has been started
    nl_file,    \* check run: the text of nl.ts, a list of characters
    en_file,    \* check run: the text of en.ts
    readable,   \* check run: whether open() succeeds, per file
    pc,         \* check run: "start", "loop", "done" or "crashed"
    nl_keys,    \* check run: the table parsed from nl.ts
    lang_keys,  \* check run: the table parsed from en.ts
    missing,    \* check run: check_file's list missing
    dutch_values, \* check run: check_file's list dutch_values
    title_case  \* check run: check_file's list title_case

fixVars == <<fs, orig, io, idx, status, log, runs>>
checkVars == <<nl_file, en_file, readable, pc, nl_keys, lang_keys, missing,
               dutch_values, title_case>>
vars == <<fixVars, checkVars>>

(***************************************************************************)
(* Bounds                                                                  *)
(***************************************************************************)
MaxLen == 5
MaxLenIO == 2
MaxRuns == 2
MaxEntries == 3
MaxValLen == 6
MaxLines == 3

(***************************************************************************)
(* Lines.  A line is [k |-> kind, n |-> number]: k says which of the       *)
(* substrings the script looks for the line's text holds, n is the number  *)
(* of the line in the file the run started from (it tells apart two lines  *)
(* with the same text; the script never reads it).                         *)
(***************************************************************************)
Kinds == {"title", "summary", "anchor", "entry", "blank", "activities", "buttons"}

HasTitle(line) == line.k = "title"
HasSummary(line) == line.k = "summary"
HasAnchor(line) == line.k = "anchor"
HasActivities(line) == line.k = "activities"
HasForecastButtons(line) == line.k = "buttons"
IsBlank(line) == line.k = "blank"

Min(a, b) == IF a < b THEN a ELSE b
Least(S) == CHOOSE i \in S : \A j \in S : i <= j
Greatest(S) == CHOOSE i \in S : \A j \in S : i >= j

\* Python's lines[a:b] for 0 <= a, 0 <= b
Slice(lines, a, b) ==
    LET lo == Min(a, Len(lines))
        hi == Min(b, Len(lines))
    IN  IF hi <= lo THEN << >> ELSE [i \in 1..(hi - lo) |-> lines[lo + i]]

\* Python's lines[a:]
SliceFrom(lines, a) == Slice(lines, a, Len(lines))

\* the first index a "for i in range(...)" loop with a break stops at, given
\* the indices of the range that satisfy its test; -1 when the loop ends
\* without one
FirstOf(hits) == IF hits = {} THEN -1 ELSE Least(hits)

title_indices(lines) ==
    LET Hit(i) == HasTitle(lines[i + 1])
    IN  SelectSeq([i \in 1..Len(lines) |-> i - 1], Hit)

start_bottom(lines) == title_indices(lines)[Len(title_indices(lines))]

EndBottomFromZero(lines) ==
    FirstOf({i \in 0..(Len(lines) - 1) : HasSummary(lines[i + 1])})

end_bottom(lines) ==
    FirstOf({i \in start_bottom(lines)..(Len(lines) - 1) : HasSummary(lines[i + 1])})

bottom_block(lines) == Slice(lines, start_bottom(lines), end_bottom(lines) + 1)

insert_idx(lines) ==
    LET a == FirstOf({i \in 0..(Len(lines) - 1) : HasAnchor(lines[i + 1])})
    IN  IF a = -1 THEN -1 ELSE a + 1

start_top(lines) == title_indices(lines)[1]

StopsTop(line) == HasActivities(line) \/ HasForecastButtons(line) \/ IsBlank(line)

end_top(lines) ==
    LET e == FirstOf({i \in start_top(lines)..(Len(lines) - 1) : StopsTop(lines[i + 1])})
    IN  IF e = -1 THEN Len(lines) ELSE e

RemoveBottom(lines) ==
    Slice(lines, 0, start_bottom(lines)) \o SliceFrom(lines, end_bottom(lines) + 1)

MoveToAnchor(lines) ==
    Slice(lines, 0, insert_idx(lines)) \o bottom_block(lines)
        \o Slice(lines, insert_idx(lines), start_bottom(lines))
        \o SliceFrom(lines, end_bottom(lines) + 1)

ReplaceTop(lines) ==
    Slice(lines, 0, start_top(lines)) \o bottom_block(lines)
        \o Slice(lines, end_top(lines), start_bottom(lines))
        \o SliceFrom(lines, end_bottom(lines) + 1)

\* fix_file between its read and its write: the message it ends with and,
\* when it reaches the write, the lines it writes
fix_file(lang, lines) ==
    IF title_indices(lines) = << >> THEN [msg |-> "no_title", write |-> FALSE, new_lines |-> lines]
    ELSE IF end_bottom(lines) = -1 THEN [msg |-> "no_end", write |-> FALSE, new_lines |-> lines]
    ELSE IF Len(title_indices(lines)) > 1
         THEN [msg |-> "fixed", write |-> TRUE,
               new_lines |-> IF lang = "es" THEN RemoveBottom(lines) ELSE ReplaceTop(lines)]
    ELSE IF insert_idx(lines) # -1
         THEN [msg |-> "fixed", write |-> TRUE, new_lines |-> MoveToAnchor(lines)]
    ELSE [msg |-> "no_anchor", write |-> FALSE, new_lines |-> lines]

(***************************************************************************)
(* The run of fix_translations.py                                         *)
(***************************************************************************)
files == <<"es", "fr", "de">>
Langs == {"es", "fr", "de"}
Pos(lang) == CHOOSE i \in 1..Len(files) : files[i] = lang

Number(ks) == [i \in 1..Len(ks) |-> [k |-> ks[i], n |-> i]]
Texts(lines) == [i \in 1..Len(lines) |-> lines[i].k]
Renumber(lines) == Number(Texts(lines))

Inputs(n) == UNION {[1..m -> Kinds] : m \in 0..n}

\* a file with its one block below the anchor line
SampleFile == Number(<<"anchor", "entry", "title", "summary">>)

IOKinds == {"ok", "noread", "nowrite"}

\* the other script is not running
CheckIdle ==
    /\ nl_file = << >>
    /\ en_file = << >>
    /\ readable = [nl |-> TRUE, en |-> TRUE]
    /\ pc = "idle"
    /\ nl_keys = << >>
    /\ lang_keys = << >>
    /\ missing = << >>
    /\ dutch_values = << >>
    /\ title_case = << >>

FixIdle ==
    /\ fs = [l \in Langs |-> << >>]
    /\ orig = fs
    /\ io = [l \in Langs |-> "ok"]
    /\ idx = 1
    /\ status = "idle"
    /\ log = [l \in Langs |-> "pending"]
    /\ runs = 0

\* The files before the first run: either the three files hold the same lines
\* and every open() succeeds, or each file holds the chosen lines or the
\* sample and each open() may fail.
InitFix ==
    /\ \/ \E ks \in Inputs(MaxLen) :
            /\ fs = [l \in Langs |-> Number(ks)]
            /\ io = [l \in Langs |-> "ok"]
       \/ \E ks \in Inputs(MaxLenIO), which \in SUBSET Langs :
            /\ fs = [l \in Langs |-> IF l \in which THEN Number(ks) ELSE SampleFile]
            /\ io \in [Langs -> IOKinds]
    /\ orig = fs
    /\ idx = 1
    /\ status = "running"
    /\ log = [l \in Langs |-> "pending"]
    /\ runs = 1
    /\ CheckIdle

\* One turn of the loop "for lang, path in files.items(): fix_file(lang, path)".
\* A read that fails is caught in fix_file (lines 11-16), which prints and
\* returns.  A write that fails at open(path, 'w') (lines 132-133) is not
\* caught: the exception leaves fix_file and ends the loop; the file is as it
\* was.
FixFile ==
    /\ status = "running"
    /\ LET lang == files[idx]
           r == fix_file(lang, fs[lang])
           last == (idx = Len(files))
       IN  IF io[lang] = "noread"
           THEN /\ log' = [log EXCEPT ![lang] = "read_error"]
                /\ idx' = idx + 1
                /\ status' = IF last THEN "done" ELSE "running"
                /\ fs' = fs
           ELSE IF r.write /\ io[lang] = "nowrite"
           THEN /\ log' = [log EXCEPT ![lang] = "write_error"]
                /\ status' = "crashed"
                /\ idx' = idx
                /\ fs' = fs
           ELSE /\ log' = [log EXCEPT ![lang] = r.msg]
                /\ idx' = idx + 1
                /\ status' = IF last THEN "done" ELSE "running"
                /\ fs' = IF r.write THEN [fs EXCEPT ![lang] = r.new_lines] ELSE fs
    /\ UNCHANGED <<orig, io, runs, checkVars>>

\* the script is started again on the files the last run left behind
Rerun ==
    /\ status \in {"done", "crashed"}
    /\ runs < MaxRuns
    /\ runs' = runs + 1
    /\ fs' = [l \in Langs |-> Renumber(fs[l])]
    /\ orig' = fs'
    /\ idx' = 1
    /\ status' = "running"
    /\ log' = [l \in Langs |-> "pending"]
    /\ UNCHANGED <<io, checkVars>>

NextFix == FixFile \/ Rerun

Spec == InitFix /\ [][NextFix]_vars

(***************************************************************************)
(* check_translations.py: texts are lists of characters                    *)
(***************************************************************************)
SQ == "'"
DQ == "\""
NL == "\n"
Quotes == {SQ, DQ}
\* the characters \s matches, among those the texts here are made of
Whitespace == {" ", "\t", "\n", "\r"}
Digits == {"0", "1", "2", "3", "4", "5", "6", "7", "8", "9"}
Upper == {"A", "B", "C", "D", "E", "F", "G", "H", "I", "J", "K", "L", "M",
          "N", "O", "P", "Q", "R", "S", "T", "U", "V", "W", "X", "Y", "Z"}
Lower == {"a", "b", "c", "d", "e", "f", "g", "h", "i", "j", "k", "l", "m",
          "n", "o", "p", "q", "r", "s", "t", "u", "v", "w", "x", "y", "z"}

\* the index \s* stops at when it starts at p: the first character from p on
\* that is no whitespace, len(text) when there is none
SkipSpace(text, p) ==
    LET S == {i \in p..(Len(text) - 1) : text[i + 1] \notin Whitespace}
    IN  IF S = {} THEN Len(text) ELSE Least(S)

\* where $ matches under re.MULTILINE
AtEol(text, i) == i = Len(text) \/ (i < Len(text) /\ text[i + 1] = NL)

NoMatch == [ok |-> FALSE, key |-> << >>, val |-> << >>, end |-> 0]

\* the match of ^\s*'([^']+)'\s*:\s*(['"].*?['"]),?$ that starts at index p
MatchAt(text, p) ==
    LET n == Len(text)
        q1 == SkipSpace(text, p)
        keyEnds == {i \in (q1 + 1)..(n - 1) : text[i + 1] = SQ}
        q2 == Least(keyEnds)
        q3 == SkipSpace(text, q2 + 1)
        q4 == SkipSpace(text, q3 + 1)
        closers == {j \in (q4 + 1)..(n - 1) :
                      /\ text[j + 1] \in Quotes
                      /\ \A i \in (q4 + 1)..(j - 1) : text[i + 1] # NL
                      /\ \/ AtEol(text, j + 1)
                         \/ (j + 1 < n /\ text[j + 2] = "," /\ AtEol(text, j + 2))}
        j == Least(closers)
    IN  IF ~(p = 0 \/ text[p] = NL) THEN NoMatch
        ELSE IF ~(q1 < n /\ text[q1 + 1] = SQ) THEN NoMatch
        ELSE IF keyEnds = {} \/ q2 = q1 + 1 THEN NoMatch
        ELSE IF ~(q3 < n /\ text[q3 + 1] = ":") THEN NoMatch
        ELSE IF ~(q4 < n /\ text[q4 + 1] \in Quotes) THEN NoMatch
        ELSE IF closers = {} THEN NoMatch
        ELSE [ok |-> TRUE,
              key |-> Slice(text, q1 + 1, q2),
              val |-> Slice(text, q4, j + 1),
              end |-> IF AtEol(text, j + 1) THEN j + 1 ELSE j + 2]

\* re.findall: the matches from left to right, each search starting where
\* the last match ended
RECURSIVE FindAllFrom(_, _)
FindAllFrom(text, pos) ==
    IF pos >= Len(text) THEN << >>
    ELSE LET m == MatchAt(text, pos)
         IN  IF m.ok THEN <<[key |-> m.key, val |-> m.val]>> \o FindAllFrom(text, m.end)
             ELSE FindAllFrom(text, pos + 1)

\* A dict is the list of its items [key, val] in insertion order.
DictKeys(d) == [i \in 1..Len(d) |-> d[i].key]
DictHas(d, k) == \E i \in 1..Len(d) : d[i].key = k
DictGet(d, k) == d[CHOOSE i \in 1..Len(d) : d[i].key = k].val
\* d[k] = v
DictSet(d, k, v) ==
    IF DictHas(d, k)
    THEN [i \in 1..Len(d) |-> IF d[i].key = k THEN [key |-> k, val |-> v] ELSE d[i]]
    ELSE Append(d, [key |-> k, val |-> v])

\* the loop "for key, val in matches: keys[key] = val[1:-1]"
RECURSIVE StoreMatches(_, _, _)
StoreMatches(matches, i, keys) ==
    IF i > Len(matches) THEN keys
    ELSE StoreMatches(matches, i + 1,
            DictSet(keys, matches[i].key, Slice(matches[i].val, 1, Len(matches[i].val) - 1)))

parse_ts_file(text) == StoreMatches(FindAllFrom(text, 0), 1, << >>)

AllowList == {<<"a", "p", "p", ".", "t", "i", "t", "l", "e", "_", "p", "r", "e", "f", "i", "x">>,
              <<"a", "m", "b", "i", "e", "n", "t", ".", "b", "r", "e", "s", "s", "e", "r">>,
              <<"b", "i", "g", "b", "e", "n", ".", "i", "n", "s", "c", "r", "i", "p", "t", "i", "o", "n">>}

LenThreshold == 5
WordThreshold == 3

RemoveSpaces(v) == LET NotSpace(c) == c # " " IN SelectSeq(v, NotSpace)
\* str.isnumeric, on the characters the texts here are made of
IsNumeric(v) == v # << >> /\ \A i \in 1..Len(v) : v[i] \in Digits
\* str.isupper
IsUpperStr(v) ==
    /\ \E i \in 1..Len(v) : v[i] \in Upper
    /\ \A i \in 1..Len(v) : v[i] \notin Lower

\* str.split(): the maximal runs of characters that are no whitespace
Words(v) ==
    LET starts == {i \in 1..Len(v) :
                     v[i] \notin Whitespace /\ (i = 1 \/ v[i - 1] \in Whitespace)}
        WordEnd(i) == Least({j \in i..Len(v) :
                               j = Len(v) \/ v[j + 1] \in Whitespace})
        RECURSIVE From(_)
        From(i) ==
            IF {s \in starts : s >= i} = {} THEN << >>
            ELSE LET s == Least({t \in starts : t >= i})
                 IN  <<SubSeq(v, s, WordEnd(s))>> \o From(WordEnd(s) + 1)
    IN  From(1)

MissingPresent(nl, lang) ==
    LET Test(k) == DictHas(lang, k) IN SelectSeq(DictKeys(nl), Test)

Missing(nl, lang) ==
    LET Test(k) == ~DictHas(lang, k) IN SelectSeq(DictKeys(nl), Test)

DutchValuesAtLeast5(nl, lang) ==
    LET Test(e) ==
            /\ DictHas(nl, e.key)
            /\ e.val = DictGet(nl, e.key)
            /\ Len(e.val) >= LenThreshold
            /\ ~IsNumeric(RemoveSpaces(e.val))
            /\ e.key \notin AllowList
    IN  SelectSeq(lang, Test)

DutchValues(nl, lang) ==
    LET Test(e) ==
            /\ DictHas(nl, e.key)
            /\ e.val = DictGet(nl, e.key)
            /\ Len(e.val) > LenThreshold
            /\ ~IsNumeric(RemoveSpaces(e.val))
            /\ e.key \notin AllowList
    IN  SelectSeq(lang, Test)

TitleCase(lang) ==
    LET Test(e) ==
            LET words == Words(e.val)
            IN  /\ Len(words) > 3
                /\ \A i \in 1..Len(words) : words[i][1] \in Upper
                /\ ~IsUpperStr(e.val)
    IN  SelectSeq(lang, Test)

(***************************************************************************)
(* The run of check_translations.py                                       *)
(***************************************************************************)
\* nl_keys = parse_ts_file(nl_path)
ParseNl ==
    /\ pc = "start"
    /\ IF readable.nl
       THEN nl_keys' = parse_ts_file(nl_file) /\ pc' = "loop"
       ELSE nl_keys' = nl_keys /\ pc' = "crashed"
    /\ UNCHANGED <<nl_file, en_file, readable, lang_keys, missing, dutch_values,
                   title_case, fixVars>>

\* the one turn of "for lang, path in files.items(): check_file(...)"
CheckFile ==
    /\ pc = "loop"
    /\ IF readable.en
       THEN /\ lang_keys' = parse_ts_file(en_file)
            /\ missing' = Missing(nl_keys, lang_keys')
            /\ dutch_values' = DutchValues(nl_keys, lang_keys')
            /\ title_case' = TitleCase(lang_keys')
            /\ pc' = "done"
       ELSE /\ pc' = "crashed"
            /\ UNCHANGED <<lang_keys, missing, dutch_values, title_case>>
    /\ UNCHANGED <<nl_file, en_file, readable, nl_keys, fixVars>>

NextCheck == ParseNl \/ CheckFile

\* the files the run reads
PlainKeys == {<<"a">>, <<"b">>, <<"c">>}
FileKeys == PlainKeys \cup {<<"a", "p", "p", ".", "t", "i", "t", "l", "e", "_", "p", "r", "e", "f", "i", "x">>}
Hello == <<"H", "e", "l", "l", "o", "!">>

EntryLine(k, v) == <<" ", " ", SQ>> \o k \o <<SQ, ":", " ", SQ>> \o v \o <<SQ, ",", NL>>

RECURSIVE EntryLines(_)
EntryLines(entries) ==
    IF entries = << >> THEN << >>
    ELSE EntryLine(entries[1].key, entries[1].val) \o EntryLines(Tail(entries))

\* a locale file with these entries, one per line, between its braces
Render(entries) == <<"{", NL>> \o EntryLines(entries) \o <<"}", ";", NL>>

KeyLists == UNION {[1..m -> FileKeys] : m \in 0..MaxEntries}
\* the key lists that name no key twice
PlainKeyLists == {ks \in KeyLists : \A i, j \in 1..Len(ks) : ks[i] = ks[j] => i = j}
WithValue(ks, v) == [i \in 1..Len(ks) |-> [key |-> ks[i], val |-> v]]

ValChars == {" ", "1", "a"}
Values == UNION {[1..m -> ValChars] : m \in LenThreshold..MaxValLen}
\* v, and v with its first or its last character changed
OneCharFrom(v) == {[v EXCEPT ![i] = c] : i \in {1, Len(v)}, c \in ValChars}

LineShapes == {<<"'", "a", "'", ":", " ", "'", "x", "'", ",">>,
               <<"'", "a", "'", ":", " ", "\"", "y", "\"">>,
               <<" ", " ", "'", "b", "'", " ", ":", " ", "'", "x", "'", ",">>,
               <<"'", "a", "'", ":">>,
               <<"/", "/", " ", "c">>,
               <<>>,
               <<"'", "b", "'", ":", " ", "'", "x", "'", " ", "/", "/", " ", "c">>,
               <<"'", "a", "'", ":", " ", "'", "i", "t", "'", "s", "'", ",">>,
               <<"'", "b", "'", ":", " ", "'", "A", " ", "B", "c", " ", "D", " ", "E", "'", ",">>,
               <<"'", "b", "'", ":", " ", "'", "A", " ", "B", " ", "C", " ", "D", "'", ",">>}

RECURSIVE JoinLines(_)
JoinLines(ls) ==
    IF ls = << >> THEN << >> ELSE ls[1] \o <<NL>> \o JoinLines(Tail(ls))

ShapeTexts == UNION {[1..m -> LineShapes] : m \in 0..MaxLines}

\* The files before the run: rendered entry lists that differ in their keys,
\* or one entry each with values one character apart, or any open() failing,
\* or en.ts made of arbitrary line shapes.
InitCheck ==
    /\ \/ \E kn \in KeyLists, ke \in PlainKeyLists :
            /\ nl_file = Render(WithValue(kn, Hello))
            /\ en_file = Render(WithValue(ke, Hello))
            /\ readable = [nl |-> TRUE, en |-> TRUE]
       \/ /\ nl_file = Render(WithValue(<<<<"a">>, <<"b">>>>, Hello))
          /\ en_file = Render(WithValue(<<<<"a">>>>, Hello))
          /\ readable \in [{"nl", "en"} -> BOOLEAN]
       \/ \E v \in Values, kk \in {<<1, 1>>, <<1, 2>>, <<3, 3>>} :
          \E w \in OneCharFrom(v) :
            LET ks == <<<<"a">>, <<"b">>, <<"a", "p", "p", ".", "t", "i", "t", "l", "e", "_", "p", "r", "e", "f", "i", "x">>>>
            IN  /\ nl_file = Render(<<[key |-> ks[kk[1]], val |-> w]>>)
                /\ en_file = Render(<<[key |-> ks[kk[2]], val |-> v]>>)
                /\ readable = [nl |-> TRUE, en |-> TRUE]
       \/ \E ls \in ShapeTexts :
            /\ nl_file = Render(<<[key |-> <<"a">>, val |-> <<"x">>]>>)
            /\ en_file = JoinLines(ls)
            /\ readable = [nl |-> TRUE, en |-> TRUE]
    /\ pc = "start"
    /\ nl_keys = << >>
    /\ lang_keys = << >>
    /\ missing = << >>
    /\ dutch_values = << >>
    /\ title_case = << >>
    /\ FixIdle

SpecCheck == InitCheck /\ [][NextCheck]_vars

(***************************************************************************)
(* What the claims speak of, stated on the text of the lines alone         *)
(* (positions here are 1-based positions of the sequence)                  *)
(***************************************************************************)
Processed(lang) == Pos(lang) < idx
Wrote(lang) == Processed(lang) /\ log[lang] = "fixed"

TitlesAt(lines) == {i \in 1..Len(lines) : lines[i].k = "title"}
AnchorsAt(lines) == {i \in 1..Len(lines) : lines[i].k = "anchor"}
SummariesFrom(lines, i) == {j \in i..Len(lines) : lines[j].k = "summary"}
\* the block that starts at title i: up to the nearest following summary line
BlockEnd(lines, i) == Least(SummariesFrom(lines, i))
BlockAt(lines, i) == SubSeq(lines, i, BlockEnd(lines, i))
Terminated(lines, i) == SummariesFrom(lines, i) # {}

\* the block, once, right after an anchor line, and equal in text to want
OneBlockAfterAnchor(out, want) ==
    /\ Cardinality(TitlesAt(out)) = 1
    /\ LET t == Least(TitlesAt(out))
       IN  /\ Terminated(out, t)
           /\ Texts(BlockAt(out, t)) = Texts(want)
           /\ t > 1
           /\ out[t - 1].k = "anchor"

\* two separate blocks and an anchor line outside both
TwoBlocks(lines) ==
    /\ Cardinality(TitlesAt(lines)) = 2
    /\ LET t1 == Least(TitlesAt(lines))
           t2 == Greatest(TitlesAt(lines))
       IN  /\ Terminated(lines, t2)
           /\ BlockEnd(lines, t1) < t2
           /\ \E a \in AnchorsAt(lines) :
                \/ a < t1
                \/ a > BlockEnd(lines, t1) /\ a < t2
                \/ a > BlockEnd(lines, t2)

LongerBlock(lines) ==
    LET b1 == BlockAt(lines, Least(TitlesAt(lines)))
        b2 == BlockAt(lines, Greatest(TitlesAt(lines)))
    IN  IF Len(b2) >= Len(b1) THEN b2 ELSE b1

\* one block and an anchor line outside it
OneBlock(lines) ==
    /\ Cardinality(TitlesAt(lines)) = 1
    /\ LET t == Least(TitlesAt(lines))
       IN  /\ Terminated(lines, t)
           /\ \E a \in AnchorsAt(lines) : a < t \/ a > BlockEnd(lines, t)

\* no end marker at or after the last start marker
NoEnd(lines) ==
    /\ TitlesAt(lines) # {}
    /\ ~Terminated(lines, Greatest(TitlesAt(lines)))

\* the single-block case without an anchor line
NoAnchor(lines) ==
    /\ Cardinality(TitlesAt(lines)) = 1
    /\ Terminated(lines, Least(TitlesAt(lines)))
    /\ AnchorsAt(lines) = {}

\* the numbers of the input lines inside the ranges fix_file moves or deletes
AffectedNumbers(lang, lines) ==
    {lines[i + 1].n : i \in start_bottom(lines)..end_bottom(lines)}
    \cup (IF lang # "es" /\ Len(title_indices(lines)) > 1
          THEN {lines[i + 1].n : i \in start_top(lines)..(end_top(lines) - 1)}
          ELSE {})

\* C1: a second run of fix_file on the content the first run left behind
\* leaves that content as it is
C1_Idempotent ==
    \A lang \in Langs :
        (runs >= 2 /\ Processed(lang) /\ log[lang] # "read_error")
            => Texts(fs[lang]) = Texts(orig[lang])

\* C2: with exactly two blocks the rewritten file holds one block, the longer
\* of the two (the later on a tie), right after the anchor line
C2_KeepsLongerAfterAnchor ==
    \A lang \in Langs :
        (Wrote(lang) /\ TwoBlocks(orig[lang]))
            => OneBlockAfterAnchor(fs[lang], LongerBlock(orig[lang]))

\* C3: with more than two start markers fix_file aborts and the file is
\* left as it was
C3_AbortsOnThree ==
    \A lang \in Langs :
        (Processed(lang) /\ Cardinality(TitlesAt(orig[lang])) > 2)
            => (fs[lang] = orig[lang] /\ log[lang] # "fixed")

\* C4: with one block and an anchor line, wherever the block lies, the
\* rewritten file holds the block once, right after the anchor line
C4_MovedAfterAnchor ==
    \A lang \in Langs :
        (Processed(lang) /\ log[lang] # "read_error" /\ OneBlock(orig[lang]))
            => OneBlockAfterAnchor(fs[lang], BlockAt(orig[lang], Least(TitlesAt(orig[lang]))))

StructuralError(lines) == NoEnd(lines) \/ NoAnchor(lines)

\* C5: a file with no end marker after its last start marker, or with one
\* block and no anchor line, is left as it was, and the loop goes on to the
\* next file
C5_StructuralErrorsLocal ==
    [][(status = "running" /\ io[files[idx]] # "noread"
            /\ StructuralError(fs[files[idx]]))
        => (/\ fs' = fs
            /\ idx' = idx + 1
            /\ status' = (IF idx = Len(files) THEN "done" ELSE "running")
            /\ log'[files[idx]] \in {"no_end", "no_anchor"})]_vars

C5_Witness ==
    /\ log["es"] = "no_end"
    /\ log["fr"] = "fixed"
    /\ log["de"] = "no_end"
    /\ fs["es"] = orig["es"]
    /\ fs["de"] = orig["de"]
    /\ status = "done"

\* C6: an I/O failure on one file never stops the run
C6_IOErrorsIsolated ==
    \A lang \in Langs :
        log[lang] \in {"read_error", "write_error"} => status # "crashed"

\* C8: whenever fix_file writes, the input lines outside the moved or
\* deleted ranges are in the output once each, in their input order
C8_OutsidePreserved ==
    \A lang \in Langs :
        Wrote(lang) =>
            LET Outside(line) == line.n \notin AffectedNumbers(lang, orig[lang])
            IN  SelectSeq(fs[lang], Outside) = SelectSeq(orig[lang], Outside)

KeySet(d) == {d[i].key : i \in 1..Len(d)}
KeyIndex(d, k) == CHOOSE i \in 1..Len(d) : d[i].key = k

\* C7: missing holds exactly the keys of the reference table that the
\* candidate table lacks, each once, in the reference table's order
C7_MissingExact ==
    pc = "done" =>
        /\ \A i \in 1..Len(missing) :
                missing[i] \in KeySet(nl_keys) /\ missing[i] \notin KeySet(lang_keys)
        /\ \A k \in KeySet(nl_keys) \ KeySet(lang_keys) :
                Cardinality({i \in 1..Len(missing) : missing[i] = k}) = 1
        /\ \A i, j \in 1..Len(missing) :
                i < j => KeyIndex(nl_keys, missing[i]) < KeyIndex(nl_keys, missing[j])

C7_Witness ==
    /\ pc = "done"
    /\ Len(missing) >= 2
    /\ KeySet(nl_keys) \cap KeySet(lang_keys) # {}
    /\ KeySet(lang_keys) \ KeySet(nl_keys) # {}

Flagged(e) == \E i \in 1..Len(dutch_values) : dutch_values[i] = e
EqualsReference(e) == \E j \in 1..Len(nl_keys) : nl_keys[j] = e
OnlyDigitsAndSpaces(v) == \A i \in 1..Len(v) : v[i] \in Digits \cup {" "}
HasDigit(v) == \E i \in 1..Len(v) : v[i] \in Digits
OnlySpaces(v) == \A i \in 1..Len(v) : v[i] = " "

\* C9 as stated: an entry is flagged exactly when its key is in the reference
\* table with the same value, the value is longer than 5, is not made of
\* digits and spaces alone, and the key is not in the allow-list
C9_FlagIffAsStated ==
    pc = "done" =>
        \A i \in 1..Len(lang_keys) :
            Flagged(lang_keys[i]) <=>
                /\ EqualsReference(lang_keys[i])
                /\ Len(lang_keys[i].val) > 5
                /\ ~OnlyDigitsAndSpaces(lang_keys[i].val)
                /\ lang_keys[i].key \notin AllowList

\* C9 as amended: an entry is flagged exactly when its key is in the reference
\* table with the same value, the value is longer than 5, the value without
\* its spaces is not a non-empty run of numeric characters (a value of spaces
\* alone is flagged), and the key is not in the allow-list; nothing else is
\* in dutch_values
C9_FlagIff ==
    pc = "done" =>
        /\ \A i \in 1..Len(lang_keys) :
            Flagged(lang_keys[i]) <=>
                /\ EqualsReference(lang_keys[i])
                /\ Len(lang_keys[i].val) > 5
                /\ ~(HasDigit(lang_keys[i].val) /\ OnlyDigitsAndSpaces(lang_keys[i].val))
                /\ lang_keys[i].key \notin AllowList
        /\ \A i \in 1..Len(dutch_values) :
            \E j \in 1..Len(lang_keys) : lang_keys[j] = dutch_values[i]

C9_Witness ==
    /\ pc = "done"
    /\ \E i \in 1..Len(dutch_values) : OnlySpaces(dutch_values[i].val)
    /\ Len(nl_keys) = 1

\* the lines of a text: what lies between its newlines
RECURSIVE LinesOf(_)
LinesOf(text) ==
    LET nls == {i \in 1..Len(text) : text[i] = NL}
    IN  IF nls = {} THEN <<text>>
        ELSE <<SubSeq(text, 1, Least(nls) - 1)>>
                \o LinesOf(SubSeq(text, Least(nls) + 1, Len(text)))

\* the line, alone, matches the entry pattern
LineMatches(line) == MatchAt(line, 0).ok
LineKey(line) == MatchAt(line, 0).key
LineValue(line) == LET v == MatchAt(line, 0).val IN SubSeq(v, 2, Len(v) - 1)

\* C10: the parsed table has exactly the keys of the lines that match the
\* entry pattern, each with the quote-stripped value of its last matching line
C10_LineByLine ==
    pc = "done" =>
        LET ls == LinesOf(en_file)
            hits == {i \in 1..Len(ls) : LineMatches(ls[i])}
        IN  /\ KeySet(lang_keys) = {LineKey(ls[i]) : i \in hits}
            /\ \A e \in 1..Len(lang_keys) :
                 \A i \in hits :
                    (/\ LineKey(ls[i]) = lang_keys[e].key
                     /\ \A j \in hits : LineKey(ls[j]) = lang_keys[e].key => j <= i)
                        => lang_keys[e].val = LineValue(ls[i])

====
